---- MODULE Spec2Model ----
(***************************************************************************)
(* A model of the two map pipelines of the repository:                     *)
(*   src/disp_borough_map.py  (borough resolution, n_quantiles = 2)        *)
(*   src/disp_zip3_map.py     (ZIP3 resolution,    N_QUANTILES = 3)        *)
(* A run of main() is a walk of pc through                                 *)
(*   prepare_data -> prepare_geo -> map1 .. map5 -> done                   *)
(* or into "raised" when an exception leaves main.  Data frames are        *)
(* sequences of records, numeric cells are float64 values computed as the  *)
(* machine computes them, strings of digits (ZIP codes) are sequences of   *)
(* digits.                                                                 *)
(***************************************************************************)
EXTENDS Integers, Sequences, FiniteSets, TLC

VARIABLES
  script,       \* which script runs: "borough" or "zip3"
  pc,           \* the position of main()
  dataExists,   \* the primary dataset (CSV / the two pickles) can be opened
  records,      \* the rows of final_dataset.csv (borough) or final_df.pkl (zip3)
  asthma_pd,    \* the rows of asthma_pd.pkl (zip3 only)
  uhf_zip_map,  \* the UHF42 -> zip3 table handed to prepare_data (zip3 only)
  geoReadable,  \* gpd.read_file succeeds on the boundary file
  polygons,     \* the features of the boundary file
  unwritable,   \* the maps whose output path cannot be written (savefig raises)
  summary,      \* borough_summary / aggregated_uhf_data
  data_df,      \* the table main hands to prepare_geospatial_data
  map_gdf,      \* what prepare_geospatial_data returned: None or the merged rows
  files,        \* the maps whose file has been written
  figures,      \* the open matplotlib figures, oldest first
  notices,      \* what was printed (the notices that matter), oldest first
  attempted,    \* the maps whose plot function has been called
  classes,      \* per bivariate map, the bivariate_class column it computed
  exc           \* the exception that left main, "none" if none

vars == << script, pc, dataExists, records, asthma_pd, uhf_zip_map, geoReadable,
           polygons, unwritable, summary, data_df, map_gdf, files, figures,
           notices, attempted, classes, exc >>

(***************************************************************************)
(* Numeric cells are IEEE-754 doubles (float64), the dtype of every        *)
(* numeric column the scripts compute with.  A cell is NaN, an infinity or *)
(* the finite number s * m * 2^e: s is the sign, m a natural number that   *)
(* is odd or zero, kept as its digits in base 2^15, least significant      *)
(* first (zero is the empty sequence, with e = 0).  The arithmetic rounds  *)
(* to nearest, ties to even, as the machine does.                          *)
(***************************************************************************)
Base == 32768
LimbBits == 15
Precision == 53
MaxTop == 1024
MinExp == 0 - 1074

Max(a, b) == IF a < b THEN b ELSE a
Min(a, b) == IF a < b THEN a ELSE b

RECURSIVE Pow2(_)
Pow2(k) == IF k = 0 THEN 1 ELSE 2 * Pow2(k - 1)

\* natural numbers of any size
RECURSIVE BigStrip(_)
BigStrip(x) ==
  IF x = << >> THEN << >>
  ELSE IF x[Len(x)] = 0 THEN BigStrip(SubSeq(x, 1, Len(x) - 1))
  ELSE x

\* x + y + c
RECURSIVE AddC(_, _, _)
AddC(x, y, c) ==
  IF x = << >> /\ y = << >> THEN (IF c = 0 THEN << >> ELSE << c >>)
  ELSE LET a == IF x = << >> THEN 0 ELSE Head(x)
           b == IF y = << >> THEN 0 ELSE Head(y)
           t == a + b + c
       IN  << t % Base >> \o AddC(IF x = << >> THEN x ELSE Tail(x),
                                  IF y = << >> THEN y ELSE Tail(y), t \div Base)

\* x - y - c, for x >= y + c
RECURSIVE SubB(_, _, _)
SubB(x, y, c) ==
  IF x = << >> THEN << >>
  ELSE LET b == IF y = << >> THEN 0 ELSE Head(y)
           t == Head(x) - b - c
       IN  << IF t < 0 THEN t + Base ELSE t >>
           \o SubB(Tail(x), IF y = << >> THEN y ELSE Tail(y), IF t < 0 THEN 1 ELSE 0)

BigSub(x, y) == BigStrip(SubB(x, y, 0))

RECURSIVE CmpFrom(_, _, _)
CmpFrom(x, y, i) ==
  IF i = 0 THEN 0
  ELSE IF x[i] < y[i] THEN 0 - 1
  ELSE IF x[i] > y[i] THEN 1
  ELSE CmpFrom(x, y, i - 1)

\* -1, 0, 1 as x < y, x = y, x > y
BigCmp(x, y) ==
  IF Len(x) < Len(y) THEN 0 - 1
  ELSE IF Len(x) > Len(y) THEN 1
  ELSE CmpFrom(x, y, Len(x))

\* x * k + c for a digit k > 0
RECURSIVE MulSmall(_, _, _)
MulSmall(x, k, c) ==
  IF x = << >> THEN (IF c = 0 THEN << >> ELSE << c >>)
  ELSE LET t == Head(x) * k + c
       IN  << t % Base >> \o MulSmall(Tail(x), k, t \div Base)

RECURSIVE BigMul(_, _)
BigMul(x, y) ==
  IF x = << >> \/ y = << >> THEN << >>
  ELSE LET rest == BigMul(x, Tail(y))
           high == IF rest = << >> THEN << >> ELSE << 0 >> \o rest
       IN  IF Head(y) = 0 THEN high ELSE AddC(MulSmall(x, Head(y), 0), high, 0)

RECURSIVE BitLenSmall(_)
BitLenSmall(v) == IF v = 0 THEN 0 ELSE 1 + BitLenSmall(v \div 2)

BitLen(x) ==
  IF x = << >> THEN 0 ELSE LimbBits * (Len(x) - 1) + BitLenSmall(x[Len(x)])

\* bit i of x, the lowest bit being bit 0
Bit(x, i) ==
  IF (i \div LimbBits) + 1 > Len(x) THEN 0
  ELSE (x[(i \div LimbBits) + 1] \div Pow2(i % LimbBits)) % 2

\* x * 2^k
ShiftLeft(x, k) ==
  IF x = << >> THEN << >>
  ELSE [i \in 1..(k \div LimbBits) |-> 0] \o MulSmall(x, Pow2(k % LimbBits), 0)

\* x div 2^k
ShiftRight(x, k) ==
  LET y == SubSeq(x, (k \div LimbBits) + 1, Len(x))
      p == Pow2(k % LimbBits)
  IN  BigStrip([i \in 1..Len(y) |->
                  (y[i] \div p) + ((IF i < Len(y) THEN y[i + 1] ELSE 0) % p) * (Base \div p)])

\* x mod 2^k is not 0
LowBits(x, k) ==
  \/ \E i \in 1..Min(k \div LimbBits, Len(x)) : x[i] # 0
  \/ (k \div LimbBits) + 1 <= Len(x) /\ x[(k \div LimbBits) + 1] % Pow2(k % LimbBits) # 0

RECURSIVE TrailingZeros(_)
TrailingZeros(x) ==
  IF Head(x) = 0 THEN LimbBits + TrailingZeros(Tail(x))
  ELSE IF Head(x) % 2 = 0 THEN 1 + TrailingZeros(<< Head(x) \div 2 >>)
  ELSE 0

\* quotient and remainder of x by a digit d
RECURSIVE DivSmall(_, _, _, _, _)
DivSmall(x, d, i, rem, acc) ==
  IF i = 0 THEN [q |-> BigStrip(acc), r |-> IF rem = 0 THEN << >> ELSE << rem >>]
  ELSE LET cur == rem * Base + x[i]
       IN  DivSmall(x, d, i - 1, cur % d, << cur \div d >> \o acc)

\* the largest digit d with d * y <= r, found bit by bit (r < Base * y)
RECURSIVE DigitFor(_, _, _, _)
DigitFor(r, y, d, b) ==
  IF b < 0 THEN d
  ELSE IF BigCmp(MulSmall(y, d + Pow2(b), 0), r) <= 0
    THEN DigitFor(r, y, d + Pow2(b), b - 1)
  ELSE DigitFor(r, y, d, b - 1)

\* quotient and remainder of x by y: long division, a digit of x at a time;
\* cur is the remainder so far with the digit i of x brought down, d the
\* quotient digit it gives
RECURSIVE DivLong(_, _, _, _, _)
DivDigit(x, y, i, cur, acc, d) ==
  DivLong(x, y, i - 1, IF d = 0 THEN cur ELSE BigSub(cur, MulSmall(y, d, 0)),
          << d >> \o acc)

DivStep(x, y, i, cur, acc) ==
  DivDigit(x, y, i, cur, acc, DigitFor(cur, y, 0, LimbBits - 1))

DivLong(x, y, i, rem, acc) ==
  IF i = 0 THEN [q |-> BigStrip(acc), r |-> rem]
  ELSE DivStep(x, y, i, BigStrip(<< x[i] >> \o rem), acc)

BigDivMod(x, y) ==
  IF Len(y) = 1 THEN DivSmall(x, y[1], Len(x), 0, << >>)
  ELSE DivLong(x, y, Len(x), << >>, << >>)

\* the number a sequence of at most two digits stands for
SmallInt(x) ==
  IF x = << >> THEN 0 ELSE IF Len(x) = 1 THEN x[1] ELSE x[1] + Base * x[2]

RECURSIVE Digits(_)
Digits(i) == IF i = 0 THEN << >> ELSE << i % Base >> \o Digits(i \div Base)

\* the cells
NaN == [k |-> "nan", s |-> 1, m |-> << >>, e |-> 0]
Inf == [k |-> "inf", s |-> 1, m |-> << >>, e |-> 0]
NegInf == [k |-> "inf", s |-> 0 - 1, m |-> << >>, e |-> 0]
Infinity(s) == IF s > 0 THEN Inf ELSE NegInf
Zero(s) == [k |-> "num", s |-> s, m |-> << >>, e |-> 0]

\* s * n * 2^e, exactly, for n with t trailing zero bits
Reduced(s, n, e, t) == [k |-> "num", s |-> s, m |-> ShiftRight(n, t), e |-> e + t]

\* s * n * 2^e, exactly
Finite(s, n, e) ==
  IF n = << >> THEN Zero(s) ELSE Reduced(s, n, e, TrailingZeros(n))

\* s * n * 2^e when a double holds it: beyond the largest double it is inf
Ranged(s, n, e) ==
  IF e + BitLen(n) > MaxTop THEN Infinity(s) ELSE Finite(s, n, e)

\* n = q * 2^sh + rest rounded to q or q + 1: up when rest is more than half
\* of 2^sh, or half of it and q is odd
RoundedUp(n, sh, sticky, q) ==
  IF Bit(n, sh - 1) = 1 /\ (sticky \/ LowBits(n, sh - 1) \/ Bit(q, 0) = 1)
  THEN AddC(q, << >>, 1) ELSE q

\* s * n * 2^e rounded to a multiple of 2^to
RoundTo(s, n, e, sticky, to) ==
  IF to <= e THEN Ranged(s, n, e)
  ELSE Ranged(s, RoundedUp(n, to - e, sticky, ShiftRight(n, to - e)), to)

\* the double nearest to s * n * 2^e (to a little more, when sticky): the
\* 53 leading bits of n, no bit under 2^-1074, a tie to the even neighbour
Round(s, n, e, sticky) ==
  IF n = << >> THEN Zero(s)
  ELSE RoundTo(s, n, e, sticky, Max(e + BitLen(n) - Precision, MinExp))

\* float(i) of an integer i
Num(i) == Finite(IF i < 0 THEN 0 - 1 ELSE 1, Digits(IF i < 0 THEN 0 - i ELSE i), 0)

isna(c) == c.k = "nan"
IsNum(c) == c.k = "num"
IsZero(c) == c.k = "num" /\ c.m = << >>
Neg(c) == [c EXCEPT !.s = 0 - c.s]

\* the position over the top bit of a finite cell that is not zero
Top(c) == c.e + BitLen(c.m)

\* -1, 0, 1 as |a| < |b|, |a| = |b|, |a| > |b|, for finite cells that are not zero
MagCmp(a, b) ==
  IF Top(a) < Top(b) THEN 0 - 1
  ELSE IF Top(a) > Top(b) THEN 1
  ELSE BigCmp(ShiftLeft(a.m, a.e - Min(a.e, b.e)), ShiftLeft(b.m, b.e - Min(a.e, b.e)))

\* c1 == c2 and c1 < c2 of two cells that are not NaN (0.0 == -0.0)
NumEq(a, b) == (IsZero(a) /\ IsZero(b)) \/ a = b
NumLt(a, b) ==
  IF NumEq(a, b) THEN FALSE
  ELSE IF a.k = "inf" THEN a.s < 0
  ELSE IF b.k = "inf" THEN b.s > 0
  ELSE IF IsZero(a) THEN b.s > 0
  ELSE IF IsZero(b) THEN a.s < 0
  ELSE IF a.s # b.s THEN a.s < b.s
  ELSE a.s * MagCmp(a, b) < 0

\* sa * x * 2^lo + sb * y * 2^lo, c being how x compares with y
AddSigned(sa, sb, x, y, lo, c) ==
  IF sa # sb /\ c = 0 THEN Zero(1)
  ELSE Round(IF sa = sb \/ c > 0 THEN sa ELSE sb,
             IF sa = sb THEN AddC(x, y, 0)
             ELSE IF c > 0 THEN BigSub(x, y) ELSE BigSub(y, x),
             lo, FALSE)

AddAligned(sa, sb, x, y, lo) == AddSigned(sa, sb, x, y, lo, BigCmp(x, y))

\* a + b of finite cells (a cell more than 2^56 times the other is the sum)
AddFinite(a, b) ==
  IF IsZero(a) THEN (IF IsZero(b) THEN Zero(IF a.s < 0 /\ b.s < 0 THEN 0 - 1 ELSE 1) ELSE b)
  ELSE IF IsZero(b) THEN a
  ELSE IF Top(a) + Precision + 3 <= Top(b) THEN b
  ELSE IF Top(b) + Precision + 3 <= Top(a) THEN a
  ELSE AddAligned(a.s, b.s, ShiftLeft(a.m, a.e - Min(a.e, b.e)),
                  ShiftLeft(b.m, b.e - Min(a.e, b.e)), Min(a.e, b.e))

\* a + b: inf + (-inf) is NaN
Plus(a, b) ==
  IF isna(a) \/ isna(b) THEN NaN
  ELSE IF a.k = "inf" THEN (IF b.k = "inf" /\ b.s # a.s THEN NaN ELSE a)
  ELSE IF b.k = "inf" THEN b
  ELSE AddFinite(a, b)

\* a - b
Minus(a, b) == Plus(a, Neg(b))

\* a * b: inf * 0 is NaN
Times(a, b) ==
  IF isna(a) \/ isna(b) THEN NaN
  ELSE IF a.k = "inf" \/ b.k = "inf"
    THEN (IF IsZero(a) \/ IsZero(b) THEN NaN ELSE Infinity(a.s * b.s))
  ELSE IF IsZero(a) \/ IsZero(b) THEN Zero(a.s * b.s)
  ELSE Round(a.s * b.s, BigMul(a.m, b.m), a.e + b.e, FALSE)

\* s * (x div y) * 2^e rounded, qr being quotient and remainder of x by y
Quotient(s, qr, e) == Round(s, qr.q, e, qr.r # << >>)

\* a / b for finite cells that are not zero: k more bits of a are divided, so
\* that the quotient has more bits than a double keeps
DivideScaled(a, b, k) ==
  Quotient(a.s * b.s, BigDivMod(ShiftLeft(a.m, k), b.m), a.e - b.e - k)

\* a / b: x/0 is inf or -inf, 0/0 and inf/inf are NaN, x/inf is 0
Divide(a, b) ==
  IF isna(a) \/ isna(b) THEN NaN
  ELSE IF a.k = "inf" THEN (IF b.k = "inf" THEN NaN ELSE Infinity(a.s * b.s))
  ELSE IF b.k = "inf" THEN Zero(a.s * b.s)
  ELSE IF IsZero(b) THEN (IF IsZero(a) THEN NaN ELSE Infinity(a.s * b.s))
  ELSE IF IsZero(a) THEN Zero(a.s * b.s)
  ELSE DivideScaled(a, b, Max(0, Precision + 2 + BitLen(b.m) - BitLen(a.m)))

\* the integer part of a finite cell (int(x), np.floor of x >= 0), a cell
Trunc(c) ==
  IF c.e >= 0 THEN c ELSE Finite(c.s, ShiftRight(c.m, 0 - c.e), 0)

\* the integer a small integer-valued cell stands for
IntVal(c) == c.s * SmallInt(ShiftLeft(c.m, c.e))

RatePer == 10000
\* 0.5
Half == [k |-> "num", s |-> 1, m |-> << 1 >>, e |-> 0 - 1]

(***************************************************************************)
(* Column aggregates of pandas groupby().agg(): "sum" and "mean" skip NaN; *)
(* the sum of no values is 0 and the mean of no values is NaN.  Both add   *)
(* the values in row order with Kahan's compensated summation:             *)
(*   y = val - comp; t = sumx + y; comp = t - sumx - y; sumx = t           *)
(* and a compensation that came out NaN (an infinity went in) is reset.    *)
(***************************************************************************)
RECURSIVE kahan_sum(_, _, _, _)
\* the new compensation c is reset when it is NaN
kahan_reset(rows, col, t, c) ==
  kahan_sum(rows, col, t, IF isna(c) THEN Zero(1) ELSE c)

kahan_comp(rows, col, sumx, y, t) ==
  kahan_reset(rows, col, t, Minus(Minus(t, sumx), y))

kahan_add(rows, col, sumx, y) == kahan_comp(rows, col, sumx, y, Plus(sumx, y))

kahan_sum(rows, col, sumx, comp) ==
  IF rows = << >> THEN sumx
  ELSE IF isna(Head(rows)[col]) THEN kahan_sum(Tail(rows), col, sumx, comp)
  ELSE kahan_add(Tail(rows), col, sumx, Minus(Head(rows)[col], comp))

ColSum(rows, col) == kahan_sum(rows, col, Zero(1), Zero(1))

RECURSIVE ColCount(_, _)
ColCount(rows, col) ==
  IF rows = << >> THEN 0
  ELSE (IF isna(Head(rows)[col]) THEN 0 ELSE 1) + ColCount(Tail(rows), col)

agg_sum(rows, col) == ColSum(rows, col)

\* sumx / count, NaN for no observation
mean_of(sumx, count) == IF count = 0 THEN NaN ELSE Divide(sumx, Num(count))

agg_mean(rows, col) == mean_of(ColSum(rows, col), ColCount(rows, col))

(***************************************************************************)
(* disp_borough_map.py: prepare_borough_data                               *)
(***************************************************************************)
\* int(uhf) raises for a float that is no number: OverflowError ("cannot
\* convert float infinity to integer") or ValueError (NaN)
int_error(c) ==
  IF c.k = "inf" THEN "OverflowError" ELSE IF isna(c) THEN "ValueError" ELSE "none"

\* int(uhf) of a finite float: truncation toward zero (a float, for the
\* integer can be as large as the largest double)
ToInt(c) == Trunc(c)

\* the integers no code range goes beyond are under 2^SmallBits
SmallBits == 30

\* lo <= u <= hi for an integer u and lo, hi under 2^SmallBits
InRange(u, lo, hi) ==
  (IsZero(u) \/ Top(u) <= SmallBits) /\ lo <= IntVal(u) /\ IntVal(u) <= hi

borough_of_106(u) ==
  IF InRange(u, 101, 106) THEN "Bronx"
  ELSE IF InRange(u, 201, 211) THEN "Brooklyn"
  ELSE IF InRange(u, 301, 310) THEN "Manhattan"
  ELSE IF InRange(u, 401, 410) THEN "Queens"
  ELSE IF InRange(u, 501, 504) THEN "Staten Island"
  ELSE "Unknown"

get_borough_from_uhf_106(uhf) ==
  IF int_error(uhf) # "none" THEN int_error(uhf) ELSE borough_of_106(ToInt(uhf))

\* the if-chain of get_borough_from_uhf on the integer u
borough_of(u) ==
  IF InRange(u, 101, 107) THEN "Bronx"
  ELSE IF InRange(u, 201, 211) THEN "Brooklyn"
  ELSE IF InRange(u, 301, 310) THEN "Manhattan"
  ELSE IF InRange(u, 401, 410) THEN "Queens"
  ELSE IF InRange(u, 501, 504) THEN "Staten Island"
  ELSE "Unknown"

\* the borough name returned, or the name of the exception int(uhf) raises
get_borough_from_uhf(uhf) ==
  IF int_error(uhf) # "none" THEN int_error(uhf) ELSE borough_of(ToInt(uhf))

\* df["Asthma_Count"] = df["Asthma_Count"].fillna(0)
fillna_asthma(df) ==
  [i \in 1..Len(df) |->
     IF isna(df[i].Asthma_Count) THEN [df[i] EXCEPT !.Asthma_Count = Num(0)]
     ELSE df[i]]

\* df.dropna(subset=["UHF42", "Population", "NO2", "O3"])
dropna_subset(df) ==
  SelectSeq(df, LAMBDA r : ~isna(r.UHF42) /\ ~isna(r.Population)
                           /\ ~isna(r.NO2) /\ ~isna(r.O3))

\* df["Borough"] = df["UHF42"].apply(get_borough_from_uhf)
apply_borough(df) ==
  [i \in 1..Len(df) |-> df[i] @@ [Borough |-> get_borough_from_uhf(df[i].UHF42)]]

\* the exception that leaves df["UHF42"].apply: that of the first row whose
\* int(uhf) raises, "none" when no row does
RECURSIVE apply_error(_)
apply_error(df) ==
  IF df = << >> THEN "none"
  ELSE IF int_error(Head(df).UHF42) # "none" THEN int_error(Head(df).UHF42)
  ELSE apply_error(Tail(df))

\* df[df["Borough"] != "Unknown"]
drop_unknown(df) == SelectSeq(df, LAMBDA r : r.Borough # "Unknown")

\* groupby sorts its keys: the borough names in alphabetical order
BoroughOrder ==
  << "Bronx", "Brooklyn", "Manhattan", "Queens", "Staten Island", "Unknown" >>

\* one row of df.groupby("Borough").agg(...)
borough_agg_row(df, b) ==
  LET g == SelectSeq(df, LAMBDA r : r.Borough = b)
  IN  [Borough          |-> b,
       NO2_avg          |-> agg_mean(g, "NO2"),
       O3_avg           |-> agg_mean(g, "O3"),
       Population_sum   |-> agg_sum(g, "Population"),
       Asthma_Count_sum |-> agg_sum(g, "Asthma_Count")]

\* df.groupby("Borough").agg(...).reset_index(): a row per borough present
groupby_borough(df) ==
  LET present == SelectSeq(BoroughOrder,
                           LAMBDA b : \E i \in 1..Len(df) : df[i].Borough = b)
  IN  [j \in 1..Len(present) |-> borough_agg_row(df, present[j])]

\* borough_summary["asthma_rate"] = (Asthma_Count_sum / Population_sum) * 10000
asthma_rate(row) ==
  Times(Divide(row.Asthma_Count_sum, row.Population_sum), Num(RatePer))

add_asthma_rate(tbl) ==
  [j \in 1..Len(tbl) |-> tbl[j] @@ [asthma_rate |-> asthma_rate(tbl[j])]]

\* prepare_borough_data for the rows df of the CSV: the exception that leaves
\* it (nothing catches the one of apply), or the summary it returns
borough_summary(kept, error) ==
  IF error # "none" THEN [error |-> error, table |-> << >>]
  ELSE [error |-> "none",
        table |-> add_asthma_rate(groupby_borough(drop_unknown(apply_borough(kept))))]

cleaned(kept) == borough_summary(kept, apply_error(kept))

prepare_borough_data(df) == cleaned(dropna_subset(fillna_asthma(df)))

(***************************************************************************)
(* pandas merge.  Both joins keep the order of the left table, and a left  *)
(* row is repeated once per right row with an equal key.  A left join      *)
(* keeps a left row without a match, with nulls in the right columns.      *)
(***************************************************************************)
matches(l, right, lk, rk) == SelectSeq(right, LAMBDA r : r[rk] = l[lk])

joined(l, ms) == [i \in 1..Len(ms) |-> l @@ ms[i]]

RECURSIVE merge_inner(_, _, _, _)
merge_inner(left, right, lk, rk) ==
  IF left = << >> THEN << >>
  ELSE joined(Head(left), matches(Head(left), right, lk, rk))
       \o merge_inner(Tail(left), right, lk, rk)

left_rows_first_match(l, ms, nulls) ==
  IF ms = << >> THEN << l @@ nulls >> ELSE << l @@ ms[1] >>

left_rows(l, ms, nulls) ==
  IF ms = << >> THEN << l @@ nulls >> ELSE joined(l, ms)

RECURSIVE merge_left(_, _, _, _, _)
merge_left(left, right, lk, rk, nulls) ==
  IF left = << >> THEN << >>
  ELSE left_rows(Head(left), matches(Head(left), right, lk, rk), nulls)
       \o merge_left(Tail(left), right, lk, rk, nulls)

(***************************************************************************)
(* disp_zip3_map.py: prepare_data                                          *)
(***************************************************************************)
N_QUANTILES == 3
n_quantiles == 2

\* The embedded table UHF_TO_ZIP3_MAP_DATA as read by pd.read_csv: rows of
\* integers <<UHF42, zip3>>
UHF_TO_ZIP3_MAP_DATA ==
  << <<101,104>>, <<102,104>>, <<103,104>>, <<104,104>>, <<105,104>>,
     <<106,104>>, <<107,104>>, <<201,112>>, <<202,111>>, <<203,111>>,
     <<204,112>>, <<205,112>>, <<206,111>>, <<207,111>>, <<208,112>>,
     <<209,111>>, <<210,111>>, <<211,112>>, <<301,100>>, <<302,100>>,
     <<303,100>>, <<304,100>>, <<305,101>>, <<306,100>>, <<307,100>>,
     <<308,100>>, <<309,100>>, <<310,102>>, <<401,111>>, <<402,113>>,
     <<403,113>>, <<404,113>>, <<405,113>>, <<406,113>>, <<407,114>>,
     <<408,114>>, <<409,110>>, <<410,116>>, <<501,103>>, <<502,103>>,
     <<503,103>>, <<504,103>> >>

\* str(n) of a non-negative integer, as its sequence of decimal digits
RECURSIVE str(_)
str(n) == IF n < 10 THEN << n >> ELSE Append(str(n \div 10), n % 10)

\* s[:3]
str_prefix3(s) == SubSeq(s, 1, IF Len(s) < 3 THEN Len(s) ELSE 3)

\* lexicographic order of strings of digits (the order groupby sorts zip3 by)
RECURSIVE str_less(_, _)
str_less(a, b) ==
  IF b = << >> THEN FALSE
  ELSE IF a = << >> THEN TRUE
  ELSE IF Head(a) # Head(b) THEN Head(a) < Head(b)
  ELSE str_less(Tail(a), Tail(b))

RECURSIVE sort_strs(_)
sort_strs(S) ==
  IF S = {} THEN << >>
  ELSE LET m == CHOOSE x \in S : \A y \in S : x = y \/ str_less(x, y)
       IN  << m >> \o sort_strs(S \ {m})

\* zip3_map = pd.read_csv(...); zip3_map["zip3"] = zip3_map["zip3"].astype(str)
read_zip3_map(tbl) ==
  [i \in 1..Len(tbl) |-> [UHF42 |-> Num(tbl[i][1]), zip3 |-> str(tbl[i][2])]]

\* a mis-merge that splits a record's values evenly over its ZIP3 codes
split_over_zip3(final_df, tbl) ==
  LET zm == read_zip3_map(tbl)
      share(r) == LET k == Len(matches(r, zm, "UHF42", "UHF42"))
                  IN  IF k <= 1 \/ isna(r.Population) THEN r
                      ELSE [r EXCEPT !.Population = Num(IntVal(r.Population) \div k)]
  IN  merge_inner([i \in 1..Len(final_df) |-> share(final_df[i])],
                  zm, "UHF42", "UHF42")

\* pd.merge(final_df, zip3_map, on="UHF42")
uhf_data_with_zip3(final_df, tbl) ==
  merge_inner(final_df, read_zip3_map(tbl), "UHF42", "UHF42")

\* one row of uhf_data_with_zip3.groupby("zip3").agg(...)
zip3_agg_row(df, z) ==
  LET g == SelectSeq(df, LAMBDA r : r.zip3 = z)
  IN  [zip3           |-> z,
       NO2_avg        |-> agg_mean(g, "NO2"),
       O3_avg         |-> agg_mean(g, "O3"),
       Population_sum |-> agg_sum(g, "Population")]

groupby_zip3(df) ==
  LET present == sort_strs({ df[i].zip3 : i \in 1..Len(df) })
  IN  [j \in 1..Len(present) |-> zip3_agg_row(df, present[j])]

aggregated_uhf_data(final_df, tbl) == groupby_zip3(uhf_data_with_zip3(final_df, tbl))

ZipNulls == [NO2_avg |-> NaN, O3_avg |-> NaN, Population_sum |-> NaN]

\* geo_df = pd.merge(asthma_pd, aggregated_uhf_data, on="zip3", how="left")
prepare_data(asthma, final_df, tbl) ==
  merge_left(asthma, aggregated_uhf_data(final_df, tbl), "zip3", "zip3", ZipNulls)

(***************************************************************************)
(* prepare_geospatial_data (both scripts).  map_gdf is None or a table.    *)
(***************************************************************************)
None == [none |-> TRUE, rows |-> << >>]
Table(rows) == [none |-> FALSE, rows |-> rows]

BoroughNulls ==
  [Borough |-> "nan", NO2_avg |-> NaN, O3_avg |-> NaN, Population_sum |-> NaN,
   Asthma_Count_sum |-> NaN, asthma_rate |-> NaN]

ZipGeoNulls == [Asthma_Count |-> NaN] @@ ZipNulls

\* borough_gdf.merge(data_df, left_on="name", right_on="Borough", how="left")
merge_borough_gdf(gdf, df) == merge_left(gdf, df, "name", "Borough", BoroughNulls)

\* nyc_zcta_gdf["zip3"] = nyc_zcta_gdf["postalCode"].str[:3]
with_zip3(gdf) ==
  [i \in 1..Len(gdf) |-> gdf[i] @@ [zip3 |-> str_prefix3(gdf[i].postalCode)]]

\* nyc_zcta_gdf.merge(data_df, on="zip3", how="left")
merge_zip3_gdf(gdf, df) == merge_left(with_zip3(gdf), df, "zip3", "zip3", ZipGeoNulls)

\* the value prepare_geospatial_data returns
prepare_geospatial_data(s, readable, gdf, df) ==
  IF ~readable THEN None
  ELSE IF s = "borough" THEN Table(merge_borough_gdf(gdf, df))
  ELSE Table(merge_zip3_gdf(gdf, df))

(***************************************************************************)
(* pd.qcut(x, q, labels=range(q), duplicates="drop") on the non-null       *)
(* values x, infinities included.  The result is the ValueError or the     *)
(* label of each value.  The edges are the doubles Series.quantile (that   *)
(* is np.percentile, method "linear") computes.                            *)
(***************************************************************************)
RECURSIVE insert_sorted(_, _)
insert_sorted(c, xs) ==
  IF xs = << >> THEN << c >>
  ELSE IF NumLt(Head(xs), c) THEN << Head(xs) >> \o insert_sorted(c, Tail(xs))
  ELSE << c >> \o xs

RECURSIVE sort_values(_)
sort_values(xs) ==
  IF xs = << >> THEN << >> ELSE insert_sorted(Head(xs), sort_values(Tail(xs)))

\* the order numpy sorts and searches doubles in: NaN after everything else
NanLess(a, b) == ~isna(a) /\ (isna(b) \/ NumLt(a, b))

\* the same value for algos.unique: every NaN is the same value
SameValue(a, b) == IF isna(a) \/ isna(b) THEN isna(a) /\ isna(b) ELSE NumEq(a, b)

\* np.linspace(0, 1, q + 1)[j]: j * (1/q) + 0, and 1 for the last one
linspace(q, j) ==
  IF j = q THEN Num(1)
  ELSE Plus(Times(Num(j), Divide(Num(1), Num(q))), Zero(1))

\* the quantile np.percentile works with: Series.quantile hands it
\* qs * 100.0, and np.percentile divides by 100 again
percentile_fraction(q, j) == Divide(Times(linspace(q, j), Num(100)), Num(100))

\* the fractions of the two bucket counts the scripts use
quantile_fractions ==
  [q \in {n_quantiles, N_QUANTILES} |-> [j \in 0..q |-> percentile_fraction(q, j)]]

\* np.lib.function_base._lerp:
\*   a + (b - a) * t, and b - (b - a) * (1 - t) where t >= 0.5
lerp_diff(a, b, t, diff) ==
  IF ~NumLt(t, Half) THEN Minus(b, Times(diff, Minus(Num(1), t)))
  ELSE Plus(a, Times(diff, t))

lerp(a, b, t) == lerp_diff(a, b, t, Minus(b, a))

\* np.percentile of the sorted values arr for the fraction f: the virtual
\* index (n - 1) * f, the order statistics before and after it, and _lerp with
\* gamma = index - previous.  From the last index on, previous and next are
\* both -1 (the last value), so gamma is the index + 1.
percentile_between(arr, vi, previous) ==
  lerp(IF previous < 0 THEN arr[Len(arr)] ELSE arr[previous + 1],
       IF previous < 0 THEN arr[Len(arr)] ELSE arr[previous + 2],
       Minus(vi, Num(previous)))

percentile_at(arr, vi) ==
  percentile_between(arr, vi, IF ~NumLt(vi, Num(Len(arr) - 1)) THEN 0 - 1
                              ELSE IntVal(Trunc(vi)))

percentile(arr, f) == percentile_at(arr, Times(Num(Len(arr) - 1), f))

\* the k-th of the q + 1 quantile edges of the sorted values
quantile(sorted, k, q) == percentile(sorted, quantile_fractions[q][k])

quantile_edges(xs, q) ==
  LET sorted == sort_values(xs)
  IN  [j \in 1..(q + 1) |-> quantile(sorted, j - 1, q)]

\* algos.unique(bins): the edges without repetitions, order kept
RECURSIVE unique_bins(_)
unique_bins(bins) ==
  IF bins = << >> THEN << >>
  ELSE LET rest == unique_bins(SelectSeq(Tail(bins),
                                         LAMBDA b : ~SameValue(b, Head(bins))))
       IN  << Head(bins) >> \o rest

\* duplicates="drop": repeated edges are dropped (unless there are just two edges)
drop_duplicates(bins, unique) ==
  IF Len(unique) < Len(bins) /\ Len(bins) # 2 THEN unique ELSE bins

bins_after_drop(bins) == drop_duplicates(bins, unique_bins(bins))

\* numpy's binary search (side="left") for one key between lo and hi
RECURSIVE bisect(_, _, _, _)
bisect(bins, key, lo, hi) ==
  IF lo < hi
  THEN LET mid == lo + ((hi - lo) \div 2)
       IN  IF NanLess(bins[mid + 1], key) THEN bisect(bins, key, mid + 1, hi)
           ELSE bisect(bins, key, lo, mid)
  ELSE lo

\* bins.searchsorted(x, side="left"): the keys are searched in row order, and
\* the search of a key starts from the bounds the key before it left behind
RECURSIVE searchsorted(_, _, _, _, _)
\* r is the index found for key i
search_next(bins, xs, i, ids, r) == searchsorted(bins, xs, i + 1, r, Append(ids, r))

\* up: key i is greater than the key before it
search_key(bins, xs, i, idx, ids, up) ==
  search_next(bins, xs, i, ids,
              bisect(bins, xs[i], IF up THEN idx ELSE 0,
                     IF up \/ idx >= Len(bins) THEN Len(bins) ELSE idx + 1))

searchsorted(bins, xs, i, idx, ids) ==
  IF i > Len(xs) THEN ids
  ELSE search_key(bins, xs, i, idx, ids, i > 1 /\ NanLess(xs[i - 1], xs[i]))

\* the bin of every row: include_lowest puts x == bins[0] into bin 1; a row
\* in no bin (id 0 or len(bins)) gets no label, written 0 here
include_lowest(bins, xs, ids) ==
  [i \in 1..Len(xs) |->
     IF ~isna(xs[i]) /\ ~isna(bins[1]) /\ NumEq(xs[i], bins[1]) THEN 1
     ELSE IF ids[i] = Len(bins) THEN 0
     ELSE ids[i]]

bin_id(bins, xs) ==
  include_lowest(bins, xs, searchsorted(bins, xs, 1, Len(bins), << >>))

\* "Bin labels must be one fewer than the number of bin edges"
labels_fit(bins, q) == q = Len(bins) - 1

\* codes: the label 0..q-1 of every row, -1 for a row without label (NaN)
codes_of(ids) == [ok |-> TRUE, codes |-> [i \in 1..Len(ids) |-> ids[i] - 1]]

bins_to_cuts(bins, xs, q) ==
  IF ~labels_fit(bins, q) THEN [ok |-> FALSE, codes |-> << >>]
  ELSE codes_of(bin_id(bins, xs))

qcut(xs, q) == bins_to_cuts(bins_after_drop(quantile_edges(xs, q)), xs, q)

(***************************************************************************)
(* The five maps of main(), in call order: three plot_choropleth calls and *)
(* two plot_bivariate_map calls.                                           *)
(***************************************************************************)
Maps == 1..5
Choropleths == 1..3
Bivariates == 4..5

AsthmaCol(s) == IF s = "borough" THEN "asthma_rate" ELSE "Asthma_Count"

\* the metric column(s) of map m
MapCols(s, m) ==
  CASE m = 1 -> << AsthmaCol(s) >>
    [] m = 2 -> << "NO2_avg" >>
    [] m = 3 -> << "O3_avg" >>
    [] m = 4 -> << AsthmaCol(s), "NO2_avg" >>
    [] m = 5 -> << AsthmaCol(s), "O3_avg" >>

Quantiles(s) == IF s = "borough" THEN n_quantiles ELSE N_QUANTILES

MapPc(m) == << "map1", "map2", "map3", "map4", "map5", "done" >>[m]

\* plot_choropleth: subplots, gdf.plot, savefig, clf.  savefig raises OSError
\* when the output path cannot be written.
plot_choropleth(writable) ==
  IF writable THEN [result |-> "saved", error |-> "none", classes |-> << >>]
  ELSE [result |-> "raised", error |-> "OSError", classes |-> << >>]

\* gdf.dropna(subset=[var1_col, var2_col])
bivariate_gdf(gdf, c1, c2) ==
  SelectSeq(gdf, LAMBDA r : ~isna(r[c1]) /\ ~isna(r[c2]))

column(gdf, c) == [i \in 1..Len(gdf) |-> gdf[i][c]]

\* var1_quantiles.astype(str) + "-" + var2_quantiles.astype(str), as pairs
bivariate_class(q1, q2) == [i \in 1..Len(q1.codes) |-> << q1.codes[i], q2.codes[i] >>]

\* bivariate_gdf["bivariate_class"].map(colors): every class "i-j" with i, j
\* in 0..q-1 has a colour; a class of a row without label ("nan-j") has none
has_color(q1, q2) ==
  \A i \in 1..Len(q1.codes) : q1.codes[i] >= 0 /\ q2.codes[i] >= 0

\* what the call does once both metrics are bucketed: gdf.plot raises
\* ValueError for a missing colour and savefig OSError for an unwritable
\* path, both after plt.subplots
plot_classified(q1, q2, writable) ==
  IF ~has_color(q1, q2)
    THEN [result |-> "raised", error |-> "ValueError: Invalid RGBA argument",
          classes |-> bivariate_class(q1, q2)]
  ELSE IF ~writable
    THEN [result |-> "raised", error |-> "OSError", classes |-> bivariate_class(q1, q2)]
  ELSE [result |-> "saved", error |-> "none", classes |-> bivariate_class(q1, q2)]

\* a classification whose ValueError nothing catches
classify_uncaught(q1, q2, writable) ==
  IF ~q1.ok \/ ~q2.ok
    THEN [result |-> "raised", error |-> "ValueError", classes |-> << >>]
  ELSE plot_classified(q1, q2, writable)

plot_rows_uncaught(b, c1, c2, q, writable) ==
  IF b = << >> THEN [result |-> "no_data", error |-> "none", classes |-> << >>]
  ELSE classify_uncaught(qcut(column(b, c1), q), qcut(column(b, c2), q), writable)

\* a plot_bivariate_map whose try does not catch the classification error
plot_bivariate_map_uncaught(gdf, c1, c2, q, writable) ==
  plot_rows_uncaught(bivariate_gdf(gdf, c1, c2), c1, c2, q, writable)

\* the try around the two pd.qcut calls: their ValueError is caught
classify(q1, q2, writable) ==
  IF ~q1.ok \/ ~q2.ok
    THEN [result |-> "classify_failed", error |-> "none", classes |-> << >>]
  ELSE plot_classified(q1, q2, writable)

\* the call on the rows b with both metrics present
plot_rows(b, c1, c2, q, writable) ==
  IF b = << >> THEN [result |-> "no_data", error |-> "none", classes |-> << >>]
  ELSE classify(qcut(column(b, c1), q), qcut(column(b, c2), q), writable)

\* plot_bivariate_map: what the call does for the table gdf
plot_bivariate_map(gdf, c1, c2, q, writable) ==
  plot_rows(bivariate_gdf(gdf, c1, c2), c1, c2, q, writable)

\* the notice a call prints for its outcome
Notice(result, m) ==
  CASE result = "saved"           -> << << "Saved map to", m >> >>
    [] result = "no_data"         -> << << "No data to plot. Skipping.", m >> >>
    [] result = "classify_failed" -> << << "Could not classify data. Skipping.", m >> >>
    [] OTHER                      -> << >>

\* the figures after a call: plt.subplots opens a figure when the call gets that
\* far, plt.clf() clears it (and leaves it open) when the call gets to its end
FiguresAfter(figs, result) ==
  CASE result = "saved"  -> Append(figs, "cleared")
    [] result = "raised" -> Append(figs, "drawn")
    [] OTHER             -> figs

\* the effect of one plot call of main on the state
PlotEffect(m, out) ==
  /\ attempted' = attempted \cup {m}
  /\ figures' = FiguresAfter(figures, IF out.error = "ValueError" THEN "skip"
                                      ELSE out.result)
  /\ notices' = notices \o Notice(out.result, m)
  /\ files' = IF out.result = "saved" THEN files \cup {m} ELSE files
  /\ classes' = IF m \in Bivariates /\ out.result = "saved"
                THEN [classes EXCEPT ![m] = out.classes] ELSE classes
  /\ exc' = out.error
  /\ pc' = IF out.result = "raised" THEN "raised" ELSE MapPc(m + 1)

(***************************************************************************)
(* The steps of main()                                                     *)
(***************************************************************************)
Inputs == << script, dataExists, records, asthma_pd, uhf_zip_map, geoReadable,
             polygons, unwritable >>

PlotState == << files, figures, notices, attempted, classes >>

\* prepare_borough_data / prepare_data when the dataset cannot be opened:
\* FileNotFoundError leaves main
PrepareDataMissing ==
  /\ pc = "prepare_data"
  /\ ~dataExists
  /\ exc' = "FileNotFoundError"
  /\ pc' = "raised"
  /\ UNCHANGED << Inputs, PlotState, summary, data_df, map_gdf >>

\* main with what prepare_borough_data gave: its summary, or its exception
BoroughDataEffect(out) ==
  /\ summary' = out.table
  /\ data_df' = out.table
  /\ exc' = out.error
  /\ pc' = IF out.error = "none" THEN "prepare_geo" ELSE "raised"

\* borough_data = prepare_borough_data(FINAL_DATASET_CSV); an exception of the
\* apply leaves main
PrepareBoroughData ==
  /\ pc = "prepare_data"
  /\ script = "borough"
  /\ dataExists
  /\ BoroughDataEffect(prepare_borough_data(records))
  /\ UNCHANGED << Inputs, PlotState, map_gdf >>

\* geo_df = prepare_data(ASTHMA_PKL, FINAL_DF_PKL, UHF_TO_ZIP3_MAP_DATA)
PrepareZip3Data ==
  /\ pc = "prepare_data"
  /\ script = "zip3"
  /\ dataExists
  /\ summary' = aggregated_uhf_data(records, uhf_zip_map)
  /\ data_df' = prepare_data(asthma_pd, records, uhf_zip_map)
  /\ pc' = "prepare_geo"
  /\ UNCHANGED << Inputs, PlotState, map_gdf, exc >>

LoadNotice(gdf) ==
  IF gdf.none THEN << << "Could not load geospatial data", 0 >> >> ELSE << >>

\* disp_borough_map.main: map_gdf = prepare_geospatial_data(...); on None it
\* prints the notice and returns
PrepareGeoBorough ==
  /\ pc = "prepare_geo"
  /\ script = "borough"
  /\ map_gdf' = prepare_geospatial_data(script, geoReadable, polygons, data_df)
  /\ notices' = notices \o LoadNotice(map_gdf')
                \o (IF map_gdf'.none
                    THEN << << "Exiting due to geospatial data loading failure.", 0 >> >>
                    ELSE << >>)
  /\ pc' = IF map_gdf'.none THEN "done" ELSE "map1"
  /\ UNCHANGED << Inputs, summary, data_df, files, figures, attempted, classes, exc >>

\* disp_zip3_map.main: map_gdf = prepare_geospatial_data(...), then
\* map_gdf.drop_duplicates(subset=["zip3"]) and the debug prints, which come
\* before the "if map_gdf is None" test: on None the attribute access raises
PrepareGeoZip3 ==
  /\ pc = "prepare_geo"
  /\ script = "zip3"
  /\ map_gdf' = prepare_geospatial_data(script, geoReadable, polygons, data_df)
  /\ notices' = notices \o LoadNotice(map_gdf')
  /\ exc' = IF map_gdf'.none THEN "AttributeError" ELSE exc
  /\ pc' = IF map_gdf'.none THEN "raised" ELSE "map1"
  /\ UNCHANGED << Inputs, summary, data_df, files, figures, attempted, classes >>

\* one of the three plot_choropleth calls of main
PlotChoropleth ==
  \E m \in Choropleths :
    /\ pc = MapPc(m)
    /\ PlotEffect(m, plot_choropleth(m \notin unwritable))
    /\ UNCHANGED << Inputs, summary, data_df, map_gdf >>

\* one of the two plot_bivariate_map calls of main
PlotBivariate ==
  \E m \in Bivariates :
    /\ pc = MapPc(m)
    /\ PlotEffect(m, plot_bivariate_map(map_gdf.rows, MapCols(script, m)[1],
                                        MapCols(script, m)[2], Quantiles(script),
                                        m \notin unwritable))
    /\ UNCHANGED << Inputs, summary, data_df, map_gdf >>

(***************************************************************************)
(* Inputs                                                                  *)
(***************************************************************************)
MaxRows == 2
MaxMapRows == 3
MaxAsthmaRows == 2
MaxPolys == 2
MaxGdfRows == 4
MaxUnwritableRows == 2

Row(u, p, no2, o3, a) ==
  [UHF42 |-> u, Population |-> p, NO2 |-> no2, O3 |-> o3, Asthma_Count |-> a]

AsthmaRow(z, a) == [zip3 |-> z, Asthma_Count |-> a]

NothingDone ==
  /\ summary = << >>
  /\ data_df = << >>
  /\ map_gdf = None
  /\ files = {}
  /\ figures = << >>
  /\ notices = << >>
  /\ attempted = {}
  /\ classes = [m \in Bivariates |-> << >>]
  /\ exc = "none"

(***************************************************************************)
(* SpecAgg: the aggregation routines on bounded data sets.                 *)
(***************************************************************************)
AggCodes == {107, 108, 201}

\* <<Population, Asthma_Count>> of a row
PopAsthma ==
  { << Num(0), Num(0) >>, << Num(0), Num(1) >>, << Num(1), Num(1) >>,
    << Num(2), Num(0) >>, << Num(2), NaN >>, << NaN, Num(1) >>,
    << Num(25), Num(7) >> }

\* <<NO2, O3>> of a row
Pollutants == { << Num(1), Num(2) >>, << NaN, Num(2) >>, << Num(3), NaN >> }

BoroughRows ==
  { Row(Num(c), pa[1], po[1], po[2], pa[2]) :
      c \in AggCodes, pa \in PopAsthma, po \in Pollutants }
  \cup { Row(NaN, Num(1), Num(1), Num(2), Num(1)),
         Row(Inf, Num(1), Num(1), Num(2), Num(1)) }

\* one complete row for every code around the documented ranges, and for the
\* identifiers 107.5 and 100.5, which int() truncates
ProbeCodes == (0 - 2)..520

ProbeRows ==
  { Row(Num(c), Num(1), Num(1), Num(2), Num(1)) : c \in ProbeCodes }
  \cup { Row(Divide(Num(c), Num(2)), Num(1), Num(1), Num(2), Num(1)) : c \in {201, 215} }

Zip3Codes == {101, 102, 999}

\* <<Population, NO2, O3>> of a row
Zip3Cells ==
  { << Num(1), Num(1), Num(2) >>, << Num(2), Num(3), NaN >>,
    << NaN, Num(1), Num(2) >>, << Num(2), NaN, Num(2) >> }

Zip3Rows ==
  { Row(Num(c), x[1], x[2], x[3], NaN) : c \in Zip3Codes, x \in Zip3Cells }
  \cup { Row(NaN, Num(1), Num(1), Num(2), NaN) }

MapPairs == { << 101, 104 >>, << 101, 111 >>, << 102, 104 >> }

FixedAsthma == << AsthmaRow(str(104), Num(5)), AsthmaRow(str(111), Num(7)) >>

InitAgg ==
  /\ pc = "prepare_data"
  /\ dataExists = TRUE
  /\ geoReadable = TRUE
  /\ polygons = << >>
  /\ unwritable = {}
  /\ script \in {"borough", "zip3"}
  /\ \/ /\ script = "borough"
        /\ \/ \E k \in 0..MaxRows : records \in [1..k -> BoroughRows]
           \/ records \in [1..1 -> ProbeRows]
        /\ asthma_pd = << >>
        /\ uhf_zip_map = << >>
     \/ /\ script = "zip3"
        /\ \E k \in 0..MaxRows : records \in [1..k -> Zip3Rows]
        /\ asthma_pd = FixedAsthma
        /\ \E k \in 0..MaxMapRows : uhf_zip_map \in [1..k -> MapPairs]
  /\ NothingDone

NextAgg == PrepareBoroughData \/ PrepareZip3Data

SpecAgg == InitAgg /\ [][NextAgg]_vars

(***************************************************************************)
(* Properties of the aggregation routines (checked under SpecAgg)          *)
(***************************************************************************)
RECURSIVE SumOver(_, _)
SumOver(f, S) ==
  IF S = {} THEN 0
  ELSE LET x == CHOOSE y \in S : TRUE IN f[x] + SumOver(f, S \ {x})

RemoveAt(sq, i) == SubSeq(sq, 1, i - 1) \o SubSeq(sq, i + 1, Len(sq))

Rows == 1..Len(records)

Aggregated == pc = "prepare_geo"

\* the integer an integer-valued cell holds, 0 for a cell a sum skips (NaN)
Val(c) == IF isna(c) THEN 0 ELSE IntVal(c)

\* the code int() makes of a finite identifier
Code(c) == IntVal(Trunc(c))

\* the borough the specification documents for a code
DocumentedBorough(c) ==
  CASE c \in 101..107 -> "Bronx"
    [] c \in 201..211 -> "Brooklyn"
    [] c \in 301..310 -> "Manhattan"
    [] c \in 401..410 -> "Queens"
    [] c \in 501..504 -> "Staten Island"
    [] OTHER          -> "Unknown"

FiveBoroughs == { "Bronx", "Brooklyn", "Manhattan", "Queens", "Staten Island" }

\* a record with none of UHF42, Population, NO2, O3 missing
Complete(r) ==
  ~isna(r.UHF42) /\ ~isna(r.Population) /\ ~isna(r.NO2) /\ ~isna(r.O3)

\* the complete records of the documented borough b
RowsOf(b) ==
  { i \in Rows : /\ Complete(records[i])
                 /\ IsNum(records[i].UHF42)
                 /\ DocumentedBorough(Code(records[i].UHF42)) = b }

\* m is the mean of the (integer-valued) cells col over the rows S: their sum
\* divided by their number, in floats
IsMeanOf(m, S, col) ==
  /\ S # {}
  /\ m = Divide(Num(SumOver([i \in S |-> Val(records[i][col])], S)),
                Num(Cardinality(S)))

\* C2: get_borough_from_uhf gives every code its documented borough and
\* "Unknown" to every other code, and prepare_borough_data builds its summary
\* from the records of the five boroughs alone: there is a summary row for
\* exactly the documented boroughs of the complete records, none for
\* "Unknown", and each row aggregates exactly the records of its borough.
C2_BoroughDerivation ==
  (Aggregated /\ script = "borough") =>
    /\ \A i \in Rows : IsNum(records[i].UHF42) =>
         get_borough_from_uhf(records[i].UHF42)
           = DocumentedBorough(Code(records[i].UHF42))
    /\ \A j \in 1..Len(summary) : summary[j].Borough # "Unknown"
    /\ { summary[j].Borough : j \in 1..Len(summary) }
         = { b \in FiveBoroughs : RowsOf(b) # {} }
    /\ \A j \in 1..Len(summary) :
         LET S == RowsOf(summary[j].Borough)
         IN  /\ summary[j].Population_sum
                  = Num(SumOver([i \in S |-> Val(records[i].Population)], S))
             /\ summary[j].Asthma_Count_sum
                  = Num(SumOver([i \in S |-> Val(records[i].Asthma_Count)], S))
             /\ IsMeanOf(summary[j].NO2_avg, S, "NO2")
             /\ IsMeanOf(summary[j].O3_avg, S, "O3")

\* a complete record of an unknown code beside one of the Bronx, aggregated
C2_Witness ==
  /\ Aggregated /\ script = "borough"
  /\ \E i, j \in Rows :
       /\ Complete(records[i]) /\ Complete(records[j])
       /\ DocumentedBorough(Code(records[i].UHF42)) = "Unknown"
       /\ DocumentedBorough(Code(records[j].UHF42)) = "Bronx"
  /\ Len(summary) = 1

\* C3 (as claimed): with P the summed population and A the summed asthma
\* count of a group, asthma_rate is (A/P) x 10000 (the float quotient times
\* 10000) when P > 0 and is missing (NaN) when P = 0, whatever A >= 0 is.
C3_RateOrMissing ==
  (Aggregated /\ script = "borough") =>
    \A j \in 1..Len(summary) :
      LET P == summary[j].Population_sum
          A == summary[j].Asthma_Count_sum
          rate == summary[j].asthma_rate
      IN  /\ NumLt(Zero(1), P) => rate = Times(Divide(A, P), Num(10000))
          /\ IsZero(P) => isna(rate)

\* C7 (as claimed): in both routines a record with a missing population, NO2,
\* O3 or identifier contributes to no aggregate: the summary is the one the
\* routine computes without that record.
\* A record whose only missing field is the asthma count is kept and counts as
\* a record with asthma count 0.
SummaryOf(df) ==
  IF script = "borough" THEN prepare_borough_data(df).table
  ELSE aggregated_uhf_data(df, uhf_zip_map)

C7_IncompleteExcluded ==
  Aggregated =>
    \A i \in Rows :
      /\ ~Complete(records[i]) => summary = SummaryOf(RemoveAt(records, i))
      /\ (Complete(records[i]) /\ isna(records[i].Asthma_Count)) =>
           summary = SummaryOf([records EXCEPT ![i].Asthma_Count = Num(0)])

\* the number of mapping rows that send record i to the zip3 z
FanOut(i, z) ==
  Cardinality({ j \in 1..Len(uhf_zip_map) :
                  /\ records[i].UHF42 = Num(uhf_zip_map[j][1])
                  /\ str(uhf_zip_map[j][2]) = z })

Zip3Sum(z, col) == SumOver([i \in Rows |-> FanOut(i, z) * Val(records[i][col])], Rows)

Zip3Count(z, col) ==
  SumOver([i \in Rows |-> IF isna(records[i][col]) THEN 0 ELSE FanOut(i, z)], Rows)

Zip3MeanIs(m, z, col) ==
  IF Zip3Count(z, col) = 0 THEN isna(m)
  ELSE m = Divide(Num(Zip3Sum(z, col)), Num(Zip3Count(z, col)))

\* C8: prepare_data gives every ZIP3 group the full NO2, O3 and Population of
\* each record whose UHF42 code a mapping row sends there, once per such
\* mapping row (a record mapped to n ZIP3 codes counts in full in each of the
\* n groups), and a record whose code is in no mapping row counts in no group.
C8_Zip3FanOut ==
  (Aggregated /\ script = "zip3") =>
    /\ { summary[k].zip3 : k \in 1..Len(summary) }
         = { str(uhf_zip_map[j][2]) :
               j \in { x \in 1..Len(uhf_zip_map) :
                         \E i \in Rows : FanOut(i, str(uhf_zip_map[x][2])) > 0 } }
    /\ \A k \in 1..Len(summary) :
         LET z == summary[k].zip3
         IN  /\ summary[k].Population_sum = Num(Zip3Sum(z, "Population"))
             /\ Zip3MeanIs(summary[k].NO2_avg, z, "NO2")
             /\ Zip3MeanIs(summary[k].O3_avg, z, "O3")
    /\ \A k1, k2 \in 1..Len(summary) : summary[k1].zip3 = summary[k2].zip3 => k1 = k2

\* a record with a population of 2 whose code maps to two ZIP3 codes, and a
\* record whose code maps to none
C8_Witness ==
  /\ Aggregated /\ script = "zip3"
  /\ Len(summary) = 2
  /\ \E i \in Rows :
       /\ records[i].Population = Num(2)
       /\ FanOut(i, str(104)) = 1 /\ FanOut(i, str(111)) = 1
  /\ \E i \in Rows : ~isna(records[i].UHF42)
                     /\ \A k \in 1..Len(summary) : FanOut(i, summary[k].zip3) = 0

(***************************************************************************)
(* SpecGeo: data preparation and the geo merge on bounded boundary files.  *)
(* asthma_pd is an external table: nothing makes its zip3 values distinct. *)
(***************************************************************************)
GeoRows ==
  { Row(Num(107), Num(2), Num(1), Num(2), Num(1)),
    Row(Num(201), Num(1), Num(3), Num(4), NaN),
    Row(Num(108), Num(1), Num(1), Num(1), Num(1)) }

BoroughFeatures == { [name |-> b] : b \in { "Bronx", "Brooklyn", "Queens" } }

Zip3Features ==
  { [postalCode |-> z] :
      z \in { << 1, 0, 4, 5, 1 >>, << 1, 0, 4, 5, 2 >>, << 1, 1, 2, 0, 1 >>,
              << 1, 0, 0, 0, 1 >> } }

GeoAsthmaRows ==
  { AsthmaRow(str(104), Num(5)), AsthmaRow(str(104), Num(6)),
    AsthmaRow(str(112), NaN) }

InitGeo ==
  /\ pc = "prepare_data"
  /\ dataExists = TRUE
  /\ geoReadable \in BOOLEAN
  /\ unwritable = {}
  /\ script \in {"borough", "zip3"}
  /\ \/ /\ script = "borough"
        /\ \E k \in 0..MaxRows : records \in [1..k -> GeoRows]
        /\ asthma_pd = << >>
        /\ uhf_zip_map = << >>
        /\ \E k \in 0..MaxPolys : polygons \in [1..k -> BoroughFeatures]
     \/ /\ script = "zip3"
        /\ records \in { << >>, << Row(Num(101), Num(2), Num(1), Num(2), NaN) >> }
        /\ \E k \in 0..MaxAsthmaRows : asthma_pd \in [1..k -> GeoAsthmaRows]
        /\ uhf_zip_map = UHF_TO_ZIP3_MAP_DATA
        /\ \E k \in 0..MaxPolys : polygons \in [1..k -> Zip3Features]
  /\ NothingDone

NextGeo ==
  PrepareBoroughData \/ PrepareZip3Data \/ PrepareGeoBorough \/ PrepareGeoZip3

SpecGeo == InitGeo /\ [][NextGeo]_vars

Merged == pc = "map1"

Features == 1..Len(polygons)

\* the join key of feature p
FeatureKey(p) ==
  IF script = "borough" THEN polygons[p].name
  ELSE SubSeq(polygons[p].postalCode, 1, 3)

DataKey(j) == IF script = "borough" THEN data_df[j].Borough ELSE data_df[j].zip3

\* the rows of data_df with the key of feature p
MatchesOf(p) == { j \in 1..Len(data_df) : DataKey(j) = FeatureKey(p) }

\* the merged rows feature p takes
RowsFor(p) == IF MatchesOf(p) = {} THEN 1 ELSE Cardinality(MatchesOf(p))

\* the merged rows before those of feature p
Offset(p) == SumOver([q \in 1..(p - 1) |-> RowsFor(q)], 1..(p - 1))

MetricCols ==
  IF script = "borough"
  THEN { "NO2_avg", "O3_avg", "Population_sum", "Asthma_Count_sum", "asthma_rate" }
  ELSE { "Asthma_Count", "NO2_avg", "O3_avg", "Population_sum" }

\* C6 (as claimed): the merged output has exactly as many rows as there are
\* input polygons, never fewer and never more, whatever the summary table, and
\* an unmatched polygon carries null metric values.
C6_RowCountEqualsPolygons ==
  Merged =>
    /\ Len(map_gdf.rows) = Len(polygons)
    /\ \A p \in Features : MatchesOf(p) = {} =>
         \A c \in MetricCols : isna(map_gdf.rows[Offset(p) + 1][c])

\* C6 (amended): the merge is a left join.  Every polygon is kept, in order:
\* a polygon whose key is in no summary row gives one row with null metrics,
\* a polygon whose key is in k >= 1 summary rows gives k rows, one per
\* matching summary row.  So the output never has fewer rows than there are
\* polygons, and has exactly as many when no key repeats in the summary table,
\* which is always so for the borough summary.
C6_LeftJoin ==
  Merged =>
    /\ Len(map_gdf.rows) = SumOver([p \in Features |-> RowsFor(p)], Features)
    /\ Len(map_gdf.rows) >= Len(polygons)
    /\ \A p \in Features :
         /\ \A k \in 1..RowsFor(p) :
              /\ Offset(p) + k \in 1..Len(map_gdf.rows)
              /\ IF script = "borough"
                 THEN map_gdf.rows[Offset(p) + k].name = polygons[p].name
                 ELSE map_gdf.rows[Offset(p) + k].postalCode = polygons[p].postalCode
         /\ MatchesOf(p) = {} =>
              \A c \in MetricCols : isna(map_gdf.rows[Offset(p) + 1][c])
         /\ MatchesOf(p) # {} =>
              \A c \in MetricCols :
                { map_gdf.rows[Offset(p) + k][c] : k \in 1..RowsFor(p) }
                  = { data_df[j][c] : j \in MatchesOf(p) }
    /\ (\A i, j \in 1..Len(data_df) : DataKey(i) = DataKey(j) => i = j)
         => Len(map_gdf.rows) = Len(polygons)
    /\ script = "borough" => Len(map_gdf.rows) = Len(polygons)

\* a polygon with two matching summary rows beside a polygon with none
C6_Witness ==
  /\ Merged
  /\ \E p, q \in Features : Cardinality(MatchesOf(p)) = 2 /\ MatchesOf(q) = {}
  /\ Len(map_gdf.rows) = 3

(***************************************************************************)
(* Spec: a whole run of main() of either script.                           *)
(***************************************************************************)
MainRecords ==
  { << >>,
    << Row(Num(107), Num(4), Num(1), Num(2), Num(1)) >>,
    << Row(Num(107), Num(4), Num(1), Num(2), Num(1)),
       Row(Num(201), Num(2), Num(3), Num(4), Num(1)) >> }

MainBoroughFeatures ==
  { << [name |-> "Bronx"], [name |-> "Brooklyn"] >>,
    << [name |-> "Bronx"], [name |-> "Brooklyn"], [name |-> "Queens"] >> }

MainAsthma ==
  { << >>,
    << AsthmaRow(str(104), Num(5)) >>,
    << AsthmaRow(str(104), Num(5)), AsthmaRow(str(112), Num(7)) >> }

MainZip3Features ==
  { << [postalCode |-> << 1, 0, 4, 5, 1 >>], [postalCode |-> << 1, 1, 2, 0, 1 >>] >>,
    << [postalCode |-> << 1, 0, 4, 5, 1 >>], [postalCode |-> << 1, 1, 2, 0, 1 >>],
       [postalCode |-> << 1, 0, 0, 0, 1 >>] >> }

Init ==
  /\ pc = "prepare_data"
  /\ dataExists \in BOOLEAN
  /\ geoReadable \in BOOLEAN
  /\ unwritable \in SUBSET Maps
  /\ script \in {"borough", "zip3"}
  /\ records \in MainRecords
  /\ \/ /\ script = "borough"
        /\ asthma_pd = << >>
        /\ uhf_zip_map = << >>
        /\ polygons \in MainBoroughFeatures
     \/ /\ script = "zip3"
        /\ asthma_pd \in MainAsthma
        /\ uhf_zip_map = UHF_TO_ZIP3_MAP_DATA
        /\ polygons \in MainZip3Features
  /\ NothingDone

Next ==
  \/ PrepareDataMissing
  \/ PrepareBoroughData
  \/ PrepareZip3Data
  \/ PrepareGeoBorough
  \/ PrepareGeoZip3
  \/ PlotChoropleth
  \/ PlotBivariate

Spec == Init /\ [][Next]_vars

(***************************************************************************)
(* SpecBivar: the two plot_bivariate_map calls of main() on bounded merged *)
(* tables, from the state main() is in after its three choropleths.        *)
(***************************************************************************)
AsthmaVals == << NaN, Num(1), Num(2), Num(3), Inf >>
\* means that are no integers: 1/3, 11/6, 7/3
NO2Vals ==
  << NaN, Divide(Num(1), Num(3)), Divide(Num(11), Num(6)), Divide(Num(7), Num(3)) >>
O3Vals == << NaN, Num(2), Num(4), Num(5) >>

GdfRowCount == Len(AsthmaVals) * Len(NO2Vals)

\* the i-th merged row (0 <= i < GdfRowCount) of script s: its metric columns.
\* Every pair of an asthma and an NO2 value is a row; the O3 value of the row
\* goes round O3Vals with the two.
GdfRow(s, i) ==
  LET ai == i % Len(AsthmaVals)
      ni == i \div Len(AsthmaVals)
      a == AsthmaVals[ai + 1]
      n == NO2Vals[ni + 1]
      o == O3Vals[((ai + ni) % Len(O3Vals)) + 1]
  IN  IF s = "borough" THEN [asthma_rate |-> a, NO2_avg |-> n, O3_avg |-> o]
      ELSE [Asthma_Count |-> a, NO2_avg |-> n, O3_avg |-> o]

\* a non-decreasing sequence of row indices: one table per multiset of rows
IsAscending(ix) == \A x, y \in DOMAIN ix : x < y => ix[x] <= ix[y]

InitBivar ==
  /\ pc = "map4"
  /\ dataExists = TRUE
  /\ geoReadable = TRUE
  /\ script \in {"borough", "zip3"}
  /\ records = << >>
  /\ asthma_pd = << >>
  /\ uhf_zip_map = << >>
  /\ polygons = << >>
  /\ summary = << >>
  /\ data_df = << >>
  /\ \E k \in 0..MaxGdfRows :
       \E ix \in [1..k -> 0..(GdfRowCount - 1)] :
         /\ IsAscending(ix)
         /\ map_gdf = Table([j \in 1..k |-> GdfRow(script, ix[j])])
         /\ unwritable \in (IF k <= MaxUnwritableRows THEN { {}, {4} } ELSE { {} })
  /\ files = Choropleths
  /\ attempted = Choropleths
  /\ figures = << "cleared", "cleared", "cleared" >>
  /\ notices = << << "Saved map to", 1 >>, << "Saved map to", 2 >>,
                  << "Saved map to", 3 >> >>
  /\ classes = [m \in Bivariates |-> << >>]
  /\ exc = "none"

NextBivar == PlotBivariate

SpecBivar == InitBivar /\ [][NextBivar]_vars

(***************************************************************************)
(* Properties of plot_bivariate_map (checked under SpecBivar)              *)
(***************************************************************************)
Printed(text, m) == \E i \in 1..Len(notices) : notices[i] = << text, m >>

\* the rows of the merged table with both metrics of map m present
BothPresent(m) ==
  SelectSeq(map_gdf.rows,
            LAMBDA r : ~isna(r[MapCols(script, m)[1]]) /\ ~isna(r[MapCols(script, m)[2]]))

\* quantile bucketing of one of the two metrics of map m fails
BucketingFails(m) ==
  \E c \in 1..2 :
    ~qcut(column(BothPresent(m), MapCols(script, m)[c]), Quantiles(script)).ok

\* C4: a plot_bivariate_map call that finds no row with both metrics present,
\* or whose quantile bucketing of either metric fails, writes no file, prints
\* its notice, opens no figure and raises nothing, and main goes on to the
\* next map.
C4_BivariateSkip ==
  \A m \in Bivariates :
    (m \in attempted /\ (BothPresent(m) = << >> \/ BucketingFails(m))) =>
      /\ m \notin files
      /\ IF BothPresent(m) = << >> THEN Printed("No data to plot. Skipping.", m)
         ELSE Printed("Could not classify data. Skipping.", m)
      /\ Len(figures) = Cardinality(files) + (IF pc = "raised" THEN 1 ELSE 0)
      /\ exc # "ValueError"
      /\ pc = MapPc(m + 1) => exc = "none"
      /\ m = 4 => (pc = "map5" \/ 5 \in attempted)
      /\ m = 5 => (pc = "done" /\ exc = "none")

\* the first bivariate map skipped because its bucketing failed, the second
\* because no row has both metrics, and main at its end
C4_Witness ==
  /\ pc = "done"
  /\ attempted = Maps
  /\ BothPresent(4) # << >> /\ BucketingFails(4)
  /\ BothPresent(5) = << >>
  /\ files = Choropleths

\* the quantile edges of metric c of map m, repetitions dropped
EdgesLeft(m, c) ==
  unique_bins(quantile_edges(column(BothPresent(m), MapCols(script, m)[c]),
                             Quantiles(script)))

\* C10 (as claimed): when a metric's values repeat a quantile boundary, the
\* repeated edges are dropped and the map is still classified, with the
\* buckets that are left, and written; every class label "i-j" of a classified
\* row has i and j in 0..K-1 and no exception of the classification leaves the
\* call.
C10_DegradesAndWrites ==
  \A m \in Bivariates :
    (m \in attempted /\ BothPresent(m) # << >>) =>
      /\ ( /\ \E c \in 1..2 : Len(EdgesLeft(m, c)) < Quantiles(script) + 1
           /\ \A c \in 1..2 : Len(EdgesLeft(m, c)) >= 2
           /\ m \notin unwritable )
         => m \in files
      /\ \A i \in 1..Len(classes[m]) :
           /\ classes[m][i][1] \in 0..(Quantiles(script) - 1)
           /\ classes[m][i][2] \in 0..(Quantiles(script) - 1)
      /\ exc # "ValueError"

(***************************************************************************)
(* Properties of a run of main() (checked under Spec)                      *)
(***************************************************************************)
\* C1 (as claimed): in both scripts, when the boundary file cannot be read,
\* prepare_geospatial_data reports it and returns None, and main prints the
\* failure notice and returns normally: no exception, no map file.
C1_GeoFailureReturns ==
  (dataExists /\ ~geoReadable /\ pc \notin {"prepare_data", "prepare_geo"}) =>
    /\ map_gdf.none
    /\ Printed("Could not load geospatial data", 0)
    /\ Printed("Exiting due to geospatial data loading failure.", 0)
    /\ pc = "done"
    /\ exc = "none"
    /\ files = {}

\* C5 (as claimed): once the data set and the boundary file are loaded, no
\* failure of one map keeps main from the later maps: main ends only after
\* all five maps were attempted, and with no exception.
C5_FailureContained ==
  (~map_gdf.none /\ pc \in {"done", "raised"}) =>
    /\ attempted = Maps
    /\ pc = "done"
    /\ \A m \in Choropleths : m \notin unwritable => m \in files

\* C9 (as claimed): between two plot calls no figure of an earlier call is
\* still open.
C9_FiguresReleased == figures = << >>

====
